---- MODULE Spec2Model ----
(***************************************************************************)
(* Model of the Sphere Editor extension:                                   *)
(*   sphere_editor.py  SphereEditor (unique path allocator, registry)      *)
(*   ui_builder.py     UIBuilder (button callbacks, _get_grid_points,      *)
(*                     _generate_spheres)                                  *)
(*                                                                         *)
(* Paths are sequences of their "/"-separated components, so that          *)
(* "/World/spheres" is <<"World", "spheres">> and "/World/spheres/" is     *)
(* <<"World", "spheres", "">> (a trailing "/" leaves an empty component).  *)
(* f"{path}_{count}" is the record [path |-> path, count |-> count].       *)
(***************************************************************************)
EXTENDS Integers, Sequences, FiniteSets, TLC

VARIABLES
    img,                      \* what cv2.imread finds at image_path
    stage,                    \* prim paths that is_prim_path_valid accepts
    stageId,                  \* which stage is open (1 = the first)
    editorId,                 \* which SphereEditor instance is current
    sphere_path_generators,   \* SphereEditor._sphere_path_generators
    path_2_spheres,           \* SphereEditor.path_2_spheres (insertion order)
    log,                      \* history: one entry per allocator call
    scenario_state_btn,       \* UIBuilder._scenario_state_btn
    reset_btn_enabled,        \* UIBuilder._reset_btn.enabled
    timeline,                 \* omni.timeline state
    outcome                   \* how the last button handler ended

vars == <<img, stage, stageId, editorId, sphere_path_generators,
          path_2_spheres, log, scenario_state_btn, reset_btn_enabled,
          timeline, outcome>>

editorVars == <<stage, stageId, editorId, sphere_path_generators,
                path_2_spheres, log>>

uiVars == <<scenario_state_btn, reset_btn_enabled, timeline>>

(***************************************************************************)
(* Bounds of the model                                                     *)
(***************************************************************************)
MaxCalls == 4       \* allocator calls made on the one SphereEditor
MaxPre == 3         \* pre-existing external spheres have suffixes 1..MaxPre
MaxFailures == 1    \* allocator calls in which is_prim_path_valid raises
MaxRuns == 2        \* runs of _generate_spheres
MaxStages == 2      \* stages opened in the process lifetime
MaxDim == 100       \* largest image width and height

(***************************************************************************)
(* Program constants                                                       *)
(***************************************************************************)
BinarizeLevel == 200
radius == 10
thredhold == 50
scale == 20

(***************************************************************************)
(* sphere_editor.py                                                         *)
(***************************************************************************)
SpheresLink == <<"World", "spheres">>

\* link_path arguments the callers pass: with and without a trailing "/"
LinkPaths == {SpheresLink, Append(SpheresLink, "")}

Last(s) == s[Len(s)]

Front(s) == SubSeq(s, 1, Len(s) - 1)

\* link_path + "/collision_sphere"
get_collision_sphere_base_path(link_path) == Append(link_path, "collision_sphere")

\* f"{path}_{count}"
FormatPath(path, count) == [path |-> path, count |-> count]

\* is_prim_path_valid(prim_path) on stage stg
is_prim_path_valid(stg, prim_path) == prim_path \in stg

\* SphereEditor.__init__
NewGenerators == << >>

NewRegistry == << >>

\* (mutant) count = 0
path_generator_from_zero(path) == 0

\* _path_generator(path): a fresh generator; its state is the count that the
\* next next() yields (count = 1 before the first)
path_generator(path) == 1

\* The loop of _get_unused_collision_sphere_path from the k-th next():
\* next(generator) yields count (the generator is left ready to yield
\* count + 1), then is_prim_path_valid is asked about the candidate.  failAt
\* is the number of the query at which is_prim_path_valid raises (0: never).
RECURSIVE Scan(_, _, _, _, _, _)
Scan(stg, path, count, k, failAt, probes) ==
    LET sphere_path == FormatPath(path, count) IN
    IF k = failAt
    THEN [ok |-> FALSE, count |-> count, next |-> count + 1,
          probes |-> Append(probes, [n |-> count, ans |-> "error"])]
    ELSE IF is_prim_path_valid(stg, sphere_path)
    THEN Scan(stg, path, count + 1, k + 1, failAt,
              Append(probes, [n |-> count, ans |-> "valid"]))
    ELSE [ok |-> TRUE, count |-> count, next |-> count + 1,
          probes |-> Append(probes, [n |-> count, ans |-> "invalid"])]

\* (mutant) a new generator on every call: nothing is kept between calls
WithGeneratorFresh(gens, base) ==
    [b \in DOMAIN gens \cup {base} |-> IF b = base THEN 1 ELSE gens[b]]

\* _sphere_path_generators after the lazy creation of the generator of `base`
WithGenerator(gens, base) ==
    IF base \in DOMAIN gens THEN gens ELSE gens @@ (base :> path_generator(base))

\* (mutant) the generator is left where it yielded the returned candidate
get_unused_not_advanced(gens, stg, link_path, failAt) ==
    LET base == Append(link_path, "collision_sphere")
        g0 == IF base \in DOMAIN gens THEN gens ELSE gens @@ (base :> 1)
        r == Scan(stg, base, g0[base], 1, failAt, << >>)
    IN [gens |-> [g0 EXCEPT ![base] = r.count],
        ok |-> r.ok,
        base |-> base,
        n |-> IF r.ok THEN r.count ELSE 0,
        sphere_path |-> FormatPath(base, r.count),
        probes |-> r.probes]

\* (mutant) a call in which is_prim_path_valid raises leaves the generator
\* where the call found it
get_unused_rollback(gens, stg, link_path, failAt) ==
    LET base == Append(link_path, "collision_sphere")
        g0 == IF base \in DOMAIN gens THEN gens ELSE gens @@ (base :> 1)
        r == Scan(stg, base, g0[base], 1, failAt, << >>)
    IN [gens |-> IF r.ok THEN [g0 EXCEPT ![base] = r.next] ELSE g0,
        ok |-> r.ok,
        base |-> base,
        n |-> IF r.ok THEN r.count ELSE 0,
        sphere_path |-> FormatPath(base, r.count),
        probes |-> r.probes]

\* _get_unused_collision_sphere_path(link_path): the new generators, whether
\* it returned (ok) and the path it returned
get_unused_collision_sphere_path(gens, stg, link_path, failAt) ==
    LET base == get_collision_sphere_base_path(link_path)
        g0 == WithGenerator(gens, base)
        r == Scan(stg, base, g0[base], 1, failAt, << >>)
    IN [gens |-> [g0 EXCEPT ![base] = r.next],
        ok |-> r.ok,
        base |-> base,
        n |-> IF r.ok THEN r.count ELSE 0,
        sphere_path |-> FormatPath(base, r.count),
        probes |-> r.probes]

\* if link_path[-1] == "/": link_path = link_path[:-1]
StripSlash(link_path) ==
    IF Last(link_path) = "" THEN Front(link_path) ELSE link_path

Keys(reg) == {reg[i].key : i \in 1..Len(reg)}

\* reg[key] = value on a dict, which keeps its keys in insertion order and
\* keeps the place of a key it already holds
DictSet(reg, key, value) ==
    IF key \in Keys(reg)
    THEN [i \in 1..Len(reg) |->
             IF reg[i].key = key THEN [key |-> key, value |-> value] ELSE reg[i]]
    ELSE Append(reg, [key |-> key, value |-> value])

\* VisualSphere(sphere_path, translation=center, radius=radius, ...)
VisualSphere(sphere_path, center, rad) ==
    [prim_path |-> sphere_path, translation |-> center, radius |-> rad]

\* The editor and the stage as one value, for handlers that make many calls
World(gens, reg, stg, lg, ed, sid) ==
    [gens |-> gens, reg |-> reg, stage |-> stg, log |-> lg, ed |-> ed, sid |-> sid]

\* the log entry of one allocator call
Entry(op, r, w, wouldReturn) ==
    [ed |-> w.ed, stg |-> w.sid, op |-> op, base |-> r.base,
     probes |-> r.probes, ok |-> r.ok, n |-> r.n, wouldReturn |-> wouldReturn]

\* the suffix a call would return if is_prim_path_valid did not raise
WouldReturn(w, link_path) ==
    get_unused_collision_sphere_path(w.gens, w.stage, link_path, 0).n

\* a direct call of _get_unused_collision_sphere_path(link_path)
GetUnusedOp(w, link_path, failAt) ==
    LET r == get_unused_collision_sphere_path(w.gens, w.stage, link_path, failAt)
    IN [w EXCEPT !.gens = r.gens,
                 !.log = Append(w.log, Entry("get", r, w, WouldReturn(w, link_path)))]

\* (mutant) path_2_spheres[link_path] = sphere
add_sphere_keyed_by_parent(w, link_path, center, rad, failAt) ==
    LET lp == StripSlash(link_path)
        r == get_unused_collision_sphere_path(w.gens, w.stage, lp, failAt)
        sphere == VisualSphere(r.sphere_path, center, rad)
        e == Entry("add", r, w, WouldReturn(w, lp))
    IN IF r.ok
       THEN [w EXCEPT !.gens = r.gens,
                      !.reg = DictSet(w.reg, FormatPath(lp, 0), sphere),
                      !.stage = w.stage \cup {sphere.prim_path},
                      !.log = Append(w.log, e)]
       ELSE [w EXCEPT !.gens = r.gens, !.log = Append(w.log, e)]

\* add_sphere(link_path, center, radius): the check of link_path at line 43
\* only logs a warning; when the allocator raises, nothing after it runs
add_sphere(w, link_path, center, rad, failAt) ==
    LET lp == StripSlash(link_path)
        r == get_unused_collision_sphere_path(w.gens, w.stage, lp, failAt)
        sphere == VisualSphere(r.sphere_path, center, rad)
        e == Entry("add", r, w, WouldReturn(w, lp))
    IN IF r.ok
       THEN [w EXCEPT !.gens = r.gens,
                      !.reg = DictSet(w.reg, sphere.prim_path, sphere),
                      !.stage = w.stage \cup {sphere.prim_path},
                      !.log = Append(w.log, e)]
       ELSE [w EXCEPT !.gens = r.gens, !.log = Append(w.log, e)]

CurrentWorld ==
    World(sphere_path_generators, path_2_spheres, stage, log, editorId, stageId)

SetWorld(w) ==
    /\ sphere_path_generators' = w.gens
    /\ path_2_spheres' = w.reg
    /\ stage' = w.stage
    /\ log' = w.log

Failures == Cardinality({i \in 1..Len(log) : ~log[i].ok})

\* the queries at which is_prim_path_valid may raise in a call that would
\* otherwise make `queries` of them (0: it does not raise)
FailPoints(queries) == IF Failures < MaxFailures THEN 0..queries ELSE {0}

Queries(link_path) ==
    Len(get_unused_collision_sphere_path(sphere_path_generators, stage, link_path, 0).probes)

\* the unit of sphere centres: 1 / (2 * scale)
Origin == <<0, 0, 0>>

GetUnused(link_path) ==
    /\ Len(log) < MaxCalls
    /\ \E failAt \in FailPoints(Queries(link_path)) :
           SetWorld(GetUnusedOp(CurrentWorld, link_path, failAt))
    /\ UNCHANGED <<img, stageId, editorId, uiVars, outcome>>

AddSphere(link_path) ==
    /\ Len(log) < MaxCalls
    /\ \E failAt \in FailPoints(Queries(StripSlash(link_path))) :
           SetWorld(add_sphere(CurrentWorld, link_path, Origin, radius, failAt))
    /\ UNCHANGED <<img, stageId, editorId, uiVars, outcome>>

NoImage == [kind |-> "none", width |-> 0, height |-> 0, level |-> 0, split |-> 0]

NoOutcome ==
    [handler |-> "none", raised |-> "none", returned |-> "none", grid |-> << >>,
     circle_sums |-> << >>, points |-> << >>, placed |-> 0]

BuiltButton == [enabled |-> FALSE, text |-> "RUN"]

\* spheres that exist on the first stage before the editor is constructed
PreExisting ==
    {FormatPath(get_collision_sphere_base_path(SpheresLink), n) : n \in 1..MaxPre}

InitEditor ==
    /\ img = NoImage
    /\ stage \in SUBSET PreExisting
    /\ stageId = 1
    /\ editorId = 1
    /\ sphere_path_generators = NewGenerators
    /\ path_2_spheres = NewRegistry
    /\ log = << >>
    /\ scenario_state_btn = BuiltButton
    /\ reset_btn_enabled = FALSE
    /\ timeline = "stopped"
    /\ outcome = NoOutcome

NextEditor ==
    \E link_path \in LinkPaths :
        \/ GetUnused(link_path)
        \/ AddSphere(link_path)

SpecEditor == InitEditor /\ [][NextEditor]_vars

(***************************************************************************)
(* ui_builder.py: _get_grid_points                                          *)
(*                                                                         *)
(* An image is described by its size and content: "uniform" has every      *)
(* pixel at `level`; "columns" has the columns x < split at `level` and    *)
(* the others at 0; "none" is what cv2.imread returns for a file it cannot *)
(* read (None).                                                             *)
(***************************************************************************)
Image(kind, width, height, level, split) ==
    [kind |-> kind, width |-> width, height |-> height, level |-> level, split |-> split]

\* gray_img[y, x]
Pixel(image, x, y) ==
    IF image.kind = "uniform" THEN image.level
    ELSE IF x < image.split THEN image.level ELSE 0

\* (mutant) gray_img < 200
binary_img_inverted(image, x, y) ==
    IF Pixel(image, x, y) < BinarizeLevel THEN 1 ELSE 0

\* binary_img = (gray_img > 200).astype(int)
binary_img(image, x, y) ==
    IF Pixel(image, x, y) > BinarizeLevel THEN 1 ELSE 0

\* (mutant) the stop value is part of the range
ArangeLenInclusive(start, stop, step) ==
    IF stop < start THEN 0 ELSE ((stop - start) \div step) + 1

\* len(np.arange(start, stop, step)) for integers and step > 0
ArangeLen(start, stop, step) ==
    IF stop <= start THEN 0 ELSE (stop - start + step - 1) \div step

\* np.arange(start, stop, step)
arange(start, stop, step) ==
    [i \in 1..ArangeLen(start, stop, step) |-> start + (i - 1) * step]

x_coords(image) == arange(radius, image.width - radius, 2 * radius)

y_coords(image) == arange(radius, image.height - radius, 2 * radius)

\* np.column_stack((X.ravel(), Y.ravel())) of X, Y = np.meshgrid(x_coords,
\* y_coords): row by row, x running fastest
grid_points(image) ==
    LET xs == x_coords(image)
        ys == y_coords(image)
        nx == Len(xs)
    IN [k \in 1..(nx * Len(ys)) |-> <<xs[((k - 1) % nx) + 1], ys[((k - 1) \div nx) + 1]>>]

\* mask = np.sqrt((x_grid - x)**2 + (y_grid - y)**2) <= radius.  The squared
\* distance is an integer below 2^53 and the square root is correctly
\* rounded, so the test is the test of the squares.
InMask(x, y, px, py) ==
    (px - x) * (px - x) + (py - y) * (py - y) <= radius * radius

\* circle_sum = np.sum(binary_img[mask]), the mask taken over the whole image
circle_sum(image, x, y) ==
    Cardinality({p \in (0..(image.width - 1)) \X (0..(image.height - 1)) :
                    InMask(x, y, p[1], p[2]) /\ binary_img(image, p[1], p[2]) = 1})

\* circle_sum < 3.14 * radius * radius - thredhold, in hundredths
\* (3.14 * 10 * 10 - 50 is 264.0 in double arithmetic)
IsGap(sum) == 100 * sum < 314 * radius * radius - 100 * thredhold

\* [e[0] - width / 2, height / 2 - e[1]], in halves of a pixel
Centered(image, e) == <<2 * e[1] - image.width, image.height - 2 * e[2]>>

Indices(n) == [k \in 1..n |-> k]

\* _get_grid_points(): what it raised, what it returned and, for the
\* properties, the grid and the circle sums it computed
get_grid_points(image) ==
    IF image.kind = "none"
    THEN [NoOutcome EXCEPT !.handler = "_get_grid_points", !.returned = "None"]
    ELSE LET grid == grid_points(image)
             sums == [k \in 1..Len(grid) |-> circle_sum(image, grid[k][1], grid[k][2])]
             kept == SelectSeq(Indices(Len(grid)), LAMBDA k : IsGap(sums[k]))
         IN [handler |-> "_get_grid_points", raised |-> "none", returned |-> "tuple",
             grid |-> grid, circle_sums |-> sums,
             points |-> [i \in 1..Len(kept) |-> Centered(image, grid[kept[i]])],
             placed |-> 0]

\* the image sizes of the model: those on both sides of each step of the grid
Dims == {d \in 1..MaxDim : d % (2 * radius) \in {0, 1}}

Levels == {0, BinarizeLevel, BinarizeLevel + 1, 255}

GridImages ==
    {NoImage}
    \cup {Image("uniform", w, h, l, 0) : w \in Dims, h \in Dims, l \in Levels}
    \cup {Image("columns", w, h, 255, c) :
              w \in Dims, h \in Dims, c \in {radius, 2 * radius}}

\* the Debug button: clicked_fn=self._get_grid_points, the result dropped
DebugButton ==
    /\ outcome' = get_grid_points(img)
    /\ UNCHANGED <<img, editorVars, uiVars>>

InitGrid ==
    /\ img \in GridImages
    /\ stage = {}
    /\ stageId = 1
    /\ editorId = 0
    /\ sphere_path_generators = NewGenerators
    /\ path_2_spheres = NewRegistry
    /\ log = << >>
    /\ scenario_state_btn = BuiltButton
    /\ reset_btn_enabled = FALSE
    /\ timeline = "stopped"
    /\ outcome = NoOutcome

NextGrid == DebugButton

SpecGrid == InitGrid /\ [][NextGrid]_vars

(***************************************************************************)
(* ui_builder.py: _generate_spheres                                         *)
(***************************************************************************)
\* center = [0, point[0] / scale, point[1] / scale], in units of
\* 1 / (2 * scale) (a point is in halves of a pixel)
Center(point) == <<0, point[1], point[2]>>

\* for point in sphere_points: sphere_editor.add_sphere("/World/spheres", ...)
\* (is_prim_path_valid does not raise here: the handler holds the stage)
RECURSIVE PlaceAll(_, _, _)
PlaceAll(w, points, k) ==
    IF k > Len(points) THEN w
    ELSE PlaceAll(add_sphere(w, SpheresLink, Center(points[k]), radius, 0), points, k + 1)

\* (mutant) the handler keeps using the SphereEditor of the run before
generate_spheres_shared_editor(w, image) ==
    LET ed == [w EXCEPT !.ed = w.ed + 1]
        got == get_grid_points(image)
    IN IF got.returned = "None"
       THEN [world |-> ed,
             outcome |-> [got EXCEPT !.handler = "_generate_spheres",
                                     !.raised = "TypeError", !.returned = "none"]]
       ELSE [world |-> PlaceAll(ed, got.points, 1),
             outcome |-> [got EXCEPT !.handler = "_generate_spheres",
                                     !.returned = "None",
                                     !.placed = Len(got.points)]]

\* _generate_spheres(): a new SphereEditor, then the grid points, then one
\* add_sphere per point.  Unpacking the None that _get_grid_points returns
\* for an unreadable image raises TypeError at line 346.
generate_spheres(w, image) ==
    LET ed == [w EXCEPT !.ed = w.ed + 1, !.gens = NewGenerators, !.reg = NewRegistry]
        got == get_grid_points(image)
    IN IF got.returned = "None"
       THEN [world |-> ed,
             outcome |-> [got EXCEPT !.handler = "_generate_spheres",
                                     !.raised = "TypeError", !.returned = "none"]]
       ELSE [world |-> PlaceAll(ed, got.points, 1),
             outcome |-> [got EXCEPT !.handler = "_generate_spheres",
                                     !.returned = "None",
                                     !.placed = Len(got.points)]]

\* the Generate Spheres button
GenerateSpheres ==
    /\ editorId < MaxRuns
    /\ LET r == generate_spheres(CurrentWorld, img) IN
          /\ SetWorld(r.world)
          /\ editorId' = r.world.ed
          /\ outcome' = r.outcome
    /\ UNCHANGED <<img, stageId, uiVars>>

(***************************************************************************)
(* ui_builder.py: the buttons and the event callbacks                       *)
(***************************************************************************)
\* StateButton.reset(): back to the a_text, the physics callback removed
StateButtonReset(btn) == [btn EXCEPT !.text = "RUN"]

\* build_ui(): new buttons, Reset and Run Scenario disabled
BuildUI ==
    /\ scenario_state_btn' = BuiltButton
    /\ reset_btn_enabled' = FALSE
    /\ UNCHANGED <<img, editorVars, timeline, outcome>>

TimelineEventTypes == {"PLAY", "PAUSE", "STOP"}

TimelineAfter(type) ==
    CASE type = "PLAY" -> "playing"
      [] type = "PAUSE" -> "paused"
      [] type = "STOP" -> "stopped"

\* on_timeline_event(event)
OnTimelineEvent(type) ==
    /\ timeline' = TimelineAfter(type)
    /\ IF type = "STOP"
       THEN scenario_state_btn' = [StateButtonReset(scenario_state_btn) EXCEPT !.enabled = FALSE]
       ELSE UNCHANGED scenario_state_btn
    /\ UNCHANGED <<img, editorVars, reset_btn_enabled, outcome>>

\* (mutant) _reset_ui leaves the Run Scenario button as it is
reset_ui_keeps_run == [btn |-> StateButtonReset(scenario_state_btn), reset |-> FALSE]

\* _reset_ui(): the two buttons after it
reset_ui ==
    [btn |-> [StateButtonReset(scenario_state_btn) EXCEPT !.enabled = FALSE],
     reset |-> FALSE]

StageEventTypes == {"OPENED", "CLOSED"}

\* on_stage_event(event); `opened` says that the event reports a stage the
\* user opened (an OPENED event also follows create_new_stage)
OnStageEvent(type, opened) ==
    /\ opened => (type = "OPENED" /\ stageId < MaxStages)
    /\ IF opened
       THEN stage' = {} /\ stageId' = stageId + 1
       ELSE UNCHANGED <<stage, stageId>>
    /\ IF type = "OPENED"
       THEN /\ scenario_state_btn' = reset_ui.btn
            /\ reset_btn_enabled' = reset_ui.reset
       ELSE UNCHANGED <<scenario_state_btn, reset_btn_enabled>>
    /\ UNCHANGED <<img, editorId, sphere_path_generators, path_2_spheres, log,
                   timeline, outcome>>

\* _setup_scene(): create_new_stage()
SetupScene ==
    /\ stageId < MaxStages
    /\ stage' = {}
    /\ stageId' = stageId + 1
    /\ UNCHANGED <<img, editorId, sphere_path_generators, path_2_spheres, log,
                   uiVars, outcome>>

\* _setup_scenario()
SetupScenario ==
    /\ scenario_state_btn' = [StateButtonReset(scenario_state_btn) EXCEPT !.enabled = TRUE]
    /\ reset_btn_enabled' = TRUE
    /\ UNCHANGED <<img, editorVars, timeline, outcome>>

\* _on_post_reset_btn(), which the Reset button calls when clicked
OnPostResetBtn ==
    /\ reset_btn_enabled
    /\ scenario_state_btn' = [StateButtonReset(scenario_state_btn) EXCEPT !.enabled = TRUE]
    /\ UNCHANGED <<img, editorVars, reset_btn_enabled, timeline, outcome>>

\* _on_run_scenario_a_text(): the button clicked while it says RUN
OnRunScenarioAText ==
    /\ scenario_state_btn.enabled /\ scenario_state_btn.text = "RUN"
    /\ scenario_state_btn' = [scenario_state_btn EXCEPT !.text = "STOP"]
    /\ timeline' = "playing"
    /\ UNCHANGED <<img, editorVars, reset_btn_enabled, outcome>>

\* _on_run_scenario_b_text(): the button clicked while it says STOP
OnRunScenarioBText ==
    /\ scenario_state_btn.enabled /\ scenario_state_btn.text = "STOP"
    /\ scenario_state_btn' = [scenario_state_btn EXCEPT !.text = "RUN"]
    /\ timeline' = "paused"
    /\ UNCHANGED <<img, editorVars, reset_btn_enabled, outcome>>

\* _update_scenario(step): called on physics steps (the timeline is playing)
\* while the button says STOP; done is what self._scenario.update returns
UpdateScenario(done) ==
    /\ scenario_state_btn.text = "STOP" /\ timeline = "playing"
    /\ IF done
       THEN scenario_state_btn' = [scenario_state_btn EXCEPT !.enabled = FALSE]
       ELSE UNCHANGED scenario_state_btn
    /\ UNCHANGED <<img, editorVars, reset_btn_enabled, timeline, outcome>>

\* the images of the model with the buttons: unreadable, one and two grid
\* points accepted, none accepted
UIImages ==
    {NoImage,
     Image("uniform", 2 * radius + 1, 2 * radius + 1, 0, 0),
     Image("uniform", 4 * radius + 1, 2 * radius + 1, 0, 0),
     Image("uniform", 4 * radius + 1, 2 * radius + 1, 255, 0)}

InitUI ==
    /\ img \in UIImages
    /\ stage \in SUBSET {FormatPath(get_collision_sphere_base_path(SpheresLink), 1)}
    /\ stageId = 1
    /\ editorId = 0
    /\ sphere_path_generators = NewGenerators
    /\ path_2_spheres = NewRegistry
    /\ log = << >>
    /\ scenario_state_btn = BuiltButton
    /\ reset_btn_enabled = FALSE
    /\ timeline = "stopped"
    /\ outcome = NoOutcome

NextUI ==
    \/ BuildUI
    \/ \E type \in TimelineEventTypes : OnTimelineEvent(type)
    \/ \E type \in StageEventTypes, opened \in BOOLEAN : OnStageEvent(type, opened)
    \/ SetupScene
    \/ SetupScenario
    \/ OnPostResetBtn
    \/ OnRunScenarioAText
    \/ OnRunScenarioBText
    \/ \E done \in BOOLEAN : UpdateScenario(done)
    \/ DebugButton
    \/ GenerateSpheres

SpecUI == InitUI /\ [][NextUI]_vars

(***************************************************************************)
(* Properties of the allocator and the registry (SpecEditor)               *)
(***************************************************************************)
Idx == 1..Len(log)

\* two calls served by the same generator
SameCounter(i, j) == log[i].ed = log[j].ed /\ log[i].base = log[j].base

\* the calls the generator of `base` (of the current editor) served, in order
CallsOf(base) == SelectSeq(log, LAMBDA e : e.ed = editorId /\ e.base = base)

Returned(es) == SelectSeq(es, LAMBDA e : e.ok)

AnswersOf(es) ==
    UNION {{es[i].probes[k].ans : k \in 1..Len(es[i].probes)} : i \in 1..Len(es)}

\* how often is_prim_path_valid was asked about suffix n in the calls es
TimesAsked(es, n) ==
    Cardinality(UNION {{<<i, k>> : k \in {q \in 1..Len(es[i].probes) : es[i].probes[q].n = n}} :
                          i \in 1..Len(es)})

Bases == {get_collision_sphere_base_path(lp) : lp \in LinkPaths}

SpheresBase == get_collision_sphere_base_path(SpheresLink)

\* the spheres on the stage that no add_sphere call of the log created
External ==
    stage \ {FormatPath(log[i].base, log[i].n) :
                i \in {j \in Idx : log[j].ok /\ log[j].op = "add"}}

\* C1: for one SphereEditor and one parent path, every returned suffix is
\* strictly greater than every suffix returned before for that parent (so no
\* suffix is issued twice), and the returned path is one that
\* is_prim_path_valid answered False for, never one it answered True for.
C1_StrictlyIncreasing ==
    /\ \A i, j \in Idx :
          (i < j /\ SameCounter(i, j) /\ log[i].ok /\ log[j].ok)
              => log[i].n < log[j].n
    /\ \A i \in Idx :
          log[i].ok =>
              /\ Last(log[i].probes) = [n |-> log[i].n, ans |-> "invalid"]
              /\ \A k \in 1..Len(log[i].probes) :
                    log[i].probes[k].ans = "valid" => log[i].probes[k].n # log[i].n

\* three ids returned for one parent, by both operations, one of them after
\* skipping a pre-existing sphere
C1_Witness ==
    \E i, j, k \in Idx :
        /\ i < j /\ j < k
        /\ SameCounter(i, j) /\ SameCounter(j, k)
        /\ log[i].ok /\ log[j].ok /\ log[k].ok
        /\ log[i].op # log[j].op
        /\ Len(log[k].probes) > 1

\* C2: when is_prim_path_valid answered False to every query about a parent,
\* the N calls for that parent returned the suffixes 1, 2, ..., N in order.
C2_SequenceFromOne ==
    \A base \in Bases :
        LET es == CallsOf(base) IN
        AnswersOf(es) \subseteq {"invalid"}
            => \A k \in 1..Len(es) : es[k].ok /\ es[k].n = k

C2_Witness ==
    \E base \in Bases :
        /\ Len(CallsOf(base)) >= 3
        /\ AnswersOf(CallsOf(base)) = {"invalid"}

\* C3: when suffix 2 under parent P is the one pre-existing sphere and
\* is_prim_path_valid does not raise, the ids returned for P are
\* 1, 3, 4, ...: suffix 2 is never returned and is_prim_path_valid is asked
\* about it exactly once, by the call that skips it.
C3_SkipsTwoOnce ==
    LET es == CallsOf(SpheresBase) IN
    (External = {FormatPath(SpheresBase, 2)} /\ "error" \notin AnswersOf(es))
        => /\ \A k \in 1..Len(es) : es[k].ok /\ es[k].n = (IF k = 1 THEN 1 ELSE k + 1)
           /\ TimesAsked(es, 2) = (IF Len(es) >= 2 THEN 1 ELSE 0)

C3_Witness ==
    LET es == CallsOf(SpheresBase) IN
    /\ External = {FormatPath(SpheresBase, 2)}
    /\ "error" \notin AnswersOf(es)
    /\ Len(es) >= 3

\* j is the first call after call i that the generator of call i served
NextCall(i, j) ==
    /\ i < j
    /\ SameCounter(i, j)
    /\ \A m \in Idx : (i < m /\ m < j) => ~SameCounter(i, m)

\* j is the first call after call i, served by the same generator, to return
NextReturn(i, j) ==
    /\ i < j
    /\ SameCounter(i, j)
    /\ log[j].ok
    /\ \A m \in Idx : (i < m /\ m < j /\ SameCounter(i, m)) => ~log[m].ok

Added == SelectSeq(log, LAMBDA e : e.ed = editorId /\ e.op = "add" /\ e.ok)

\* C9: the registry holds one entry per add_sphere call that returned, in
\* the order of the calls, keyed by the path the call returned, with no key
\* twice: no call removes or overwrites an entry.
C9_RegistryGrows ==
    /\ Len(path_2_spheres) = Len(Added)
    /\ \A k \in 1..Len(Added) :
          /\ path_2_spheres[k].key = FormatPath(Added[k].base, Added[k].n)
          /\ path_2_spheres[k].value.prim_path = path_2_spheres[k].key
    /\ Cardinality(Keys(path_2_spheres)) = Len(path_2_spheres)

\* three add_sphere calls returned, with other calls of the log between or
\* after them
C9_Witness ==
    /\ Len(path_2_spheres) >= 3
    /\ Len(log) > Len(path_2_spheres)

(***************************************************************************)
(* Properties of _get_grid_points (SpecGrid)                               *)
(***************************************************************************)
Ran == outcome.handler = "_get_grid_points"

ZeroImage100 == Image("uniform", 100, 100, 0, 0)

AllForeground == img.kind = "uniform" /\ img.level > BinarizeLevel

Lattice(coords) == {<<x, y>> : x \in coords, y \in coords}

Range(seq) == {seq[k] : k \in 1..Len(seq)}

\* C6 as stated: on the 100 x 100 image of zeros the grid has 9 x 9 = 81
\* points, all accepted, each with circle_sum = 0.
C6_Lattice81 ==
    (img = ZeroImage100 /\ Ran)
        => /\ Len(outcome.grid) = 81
           /\ Len(outcome.points) = 81
           /\ Range(outcome.circle_sums) = {0}

\* C6 as amended: on the 100 x 100 image of zeros the grid is the 4 x 4
\* lattice of the coordinates 10, 30, 50, 70 (16 points), all of them are
\* accepted, in grid order, each with circle_sum = 0.
C6_Lattice16 ==
    (img = ZeroImage100 /\ Ran)
        => /\ Len(outcome.grid) = 16
           /\ Range(outcome.grid) = Lattice({10, 30, 50, 70})
           /\ Len(outcome.points) = 16
           /\ \A k \in 1..Len(outcome.points) :
                 outcome.points[k] = Centered(img, outcome.grid[k])
           /\ Range(outcome.circle_sums) = {0}

C6_Witness == img = ZeroImage100 /\ Ran /\ Len(outcome.points) > 0

\* C8: on an image with every pixel above the cutoff no grid point is
\* accepted: every circle sum is at least pi * radius^2 - thredhold (checked
\* against 3.1416 > pi, in ten-thousandths), and the returned list is empty.
C8_AllForegroundRejected ==
    (AllForeground /\ Ran)
        => /\ \A k \in 1..Len(outcome.grid) :
                 10000 * outcome.circle_sums[k]
                     >= 31416 * radius * radius - 10000 * thredhold
           /\ outcome.points = << >>
           /\ outcome.returned = "tuple"

C8_Witness ==
    /\ AllForeground /\ Ran
    /\ Len(outcome.grid) >= 16
    /\ outcome.points = << >>

(***************************************************************************)
(* Properties of the handlers and the buttons (SpecUI)                     *)
(***************************************************************************)
\* C5: when the image cannot be read, _get_grid_points fails with an input
\* error and produces no points, and _generate_spheres receives that input
\* error and places no spheres.
C5_InputErrorSurfaced ==
    (img.kind = "none" /\ outcome.handler # "none")
        => /\ outcome.raised = "InputError"
           /\ outcome.points = << >>
           /\ outcome.placed = 0

Issued == {i \in Idx : log[i].ok}

RunEnabled == scenario_state_btn.enabled

\* C10: Run Scenario is enabled only if Reset is enabled; a timeline STOP, a
\* stage OPENED or an update that reports done leaves Run Scenario disabled,
\* and only _setup_scenario or _on_post_reset_btn enables it again.
C10_RunOnlyAfterLoadOrReset ==
    /\ [](RunEnabled => reset_btn_enabled)
    /\ [][(\/ OnTimelineEvent("STOP")
           \/ \E opened \in BOOLEAN : OnStageEvent("OPENED", opened)
           \/ UpdateScenario(TRUE)) => ~RunEnabled']_vars
    /\ [][(~RunEnabled /\ RunEnabled') => (SetupScenario \/ OnPostResetBtn)]_vars

\* Run Scenario disabled by a STOP or a finished scenario while Reset stays
\* enabled
C10_Witness == ~RunEnabled /\ reset_btn_enabled /\ timeline # "stopped"

====
